---- MODULE Spec2Model ----
(***************************************************************************)
(* A model of onoma.py: a first-order Markov model of letter transitions,  *)
(* the log-likelihood score of a word under it, and the one-step "repair"  *)
(* of a word by inserting a letter at its least likely transition.         *)
(*                                                                         *)
(* Numbers.  numpy's float64 values are modelled by exact non-negative     *)
(* rationals <<p, q>> (p/q, with q = 0 and p > 0 standing for +inf, the    *)
(* value numpy gives for x/0 with x > 0).  A log-space value is the pair   *)
(* <<p, q>> standing for the real number ln(p/q): adding two log values    *)
(* multiplies the pairs, 0.0 is <<1, 1>>, ln(+inf) = +inf is <<1, 0>>.     *)
(* Rounding of float64 is not modelled.                                    *)
(*                                                                         *)
(* Words are Python strings, modelled as sequences of code points.         *)
(* Python lists and numpy axes are 0-based; TLA+ sequences are 1-based, so *)
(* element i of a Python list is element i+1 of the sequence, and tables   *)
(* are functions over 0..n-1.                                              *)
(***************************************************************************)
EXTENDS Integers, Sequences, FiniteSets, TLC

VARIABLES
    pc,               \* position in the program being run
    wordlist,         \* learn_dictionary: the words read from the dictionary
    n_symbols,        \* transition_counts: its argument
    sequence_list,    \* transition_counts: its argument
    counts,           \* transition_counts: the accumulator
    seq_k,            \* transition_counts: 1-based position of `seq` in sequence_list
    i_k,              \* transition_counts: the inner loop's i
    row_normalized,   \* the table row_normalized_transition_matrix returned
    repairing,        \* __main__: the switch guarding the repair loop
    company_names,    \* __main__: the names to repair
    repaired,         \* __main__: the working set
    num_repaired,     \* __main__
    iter_count,       \* __main__
    word,             \* repair_word: argument
    transmat,         \* repair_word: argument
    allow_deletions,  \* repair_word: argument
    result,           \* repair_word: what the call returned or raised
    sequence,         \* score_sequence: argument
    log_transmat,     \* score_sequence: argument
    score             \* score_sequence: return value

vars == <<pc, wordlist, n_symbols, sequence_list, counts, seq_k, i_k, row_normalized,
          repairing, company_names, repaired, num_repaired, iter_count,
          word, transmat, allow_deletions, result,
          sequence, log_transmat, score>>

countVars == <<n_symbols, sequence_list, counts, seq_k, i_k>>
mainVars == <<repairing, company_names, repaired, num_repaired, iter_count>>
repairVars == <<word, transmat, allow_deletions, result>>
scoreVars == <<sequence, log_transmat, score>>

(***************************************************************************)
(* Bounds of the model.                                                    *)
(***************************************************************************)
\* Size of the alphabet (n_symbols, len(transmat)); the program runs with 26.
NSymbols == 3
\* transition_counts: symbols, sequences per collection, symbols per sequence.
CountSymbols == 2
MaxSeqs == 2
MaxSeqLen == 2
\* repair_word: letters per input word.
MaxWordLen == 3
\* score_sequence: symbols of the table, symbols per sequence.
ScoreSymbols == 2
MaxScoreLen == 3
\* __main__: dictionary words read, letters per dictionary word, names sampled.
MaxDictWords == 1
MaxDictWordLen == 3
MaxNames == 2
MaxNameLen == 2

(***************************************************************************)
(* Program constants.                                                      *)
(***************************************************************************)
OrdA == 97
Smoothing == 1
MinDictWordLen == 3
FirstLoopRound == 2
MaxRounds == 10

Symbols == 0 .. (NSymbols - 1)

\* All sequences over S of length lo..hi.
SeqsOf(S, lo, hi) == UNION {[1 .. k -> S] : k \in lo .. hi}

\* All lists of at most m elements of S.
ListsOf(S, m) == UNION {[1 .. k -> S] : k \in 0 .. m}

Range(s) == {s[k] : k \in DOMAIN s}

(***************************************************************************)
(* Exact arithmetic on <<p, q>>.                                           *)
(***************************************************************************)
RECURSIVE Gcd(_, _)
Gcd(a, b) == IF b = 0 THEN a ELSE Gcd(b, a % b)

Reduce(x) ==
    LET g == Gcd(x[1], x[2])
    IN  IF g = 0 THEN x ELSE <<x[1] \div g, x[2] \div g>>

\* x <= y for two values p/q; common factors are cancelled before the cross
\* multiplication.
Leq(x, y) ==
    LET gp == Gcd(x[1], y[1])
        gq == Gcd(x[2], y[2])
        xp == IF gp = 0 THEN x[1] ELSE x[1] \div gp
        yp == IF gp = 0 THEN y[1] ELSE y[1] \div gp
        xq == IF gq = 0 THEN x[2] ELSE x[2] \div gq
        yq == IF gq = 0 THEN y[2] ELSE y[2] \div gq
    IN  xp * yq <= yp * xq

Less(x, y) == ~Leq(y, x)

Same(x, y) == Leq(x, y) /\ Leq(y, x)

\* float addition of two log-space values: ln(a) + ln(b) = ln(a*b).
LogAdd(x, y) == Reduce(<<x[1] * y[1], x[2] * y[2]>>)

\* The float 0.0 in log space.
LogZero == <<1, 1>>

\* numpy.log of one cell: the pair p/q read as the log-space value ln(p/q).
NpLogCell(x) == Reduce(x)

(***************************************************************************)
(* transition_counts(n_symbols, sequence_list)                             *)
(***************************************************************************)
\* np.zeros((n_symbols, n_symbols))
ZeroCounts(n) == [a \in 0 .. (n - 1) |-> [b \in 0 .. (n - 1) |-> 0]]

\* A slip in the inner loop's bound: the window of triple_counts.
InnerRangeTriple(seq) == Len(seq) - 2

\* range(len(seq)-1): the number of values the inner loop's i takes.
InnerRange(seq) == Len(seq) - 1

\* counts[seq[i], seq[i+1]] += 1, for symbols in 0..n_symbols-1 (the index
\* sequences the function is given hold no other).
Increment(c, seq, i) == [c EXCEPT ![seq[i + 1]][seq[i + 2]] = @ + 1]

\* One pass of the inner loop's body.
CountTransition ==
    /\ pc = "counts"
    /\ seq_k <= Len(sequence_list)
    /\ i_k < InnerRange(sequence_list[seq_k])
    /\ counts' = Increment(counts, sequence_list[seq_k], i_k)
    /\ i_k' = i_k + 1
    /\ UNCHANGED <<pc, wordlist, n_symbols, sequence_list, seq_k, row_normalized>>
    /\ UNCHANGED <<mainVars, repairVars, scoreVars>>

\* The inner loop is exhausted: the outer loop takes the next sequence.
NextSequence ==
    /\ pc = "counts"
    /\ seq_k <= Len(sequence_list)
    /\ i_k >= InnerRange(sequence_list[seq_k])
    /\ seq_k' = seq_k + 1
    /\ i_k' = 0
    /\ UNCHANGED <<pc, wordlist, n_symbols, sequence_list, counts, row_normalized>>
    /\ UNCHANGED <<mainVars, repairVars, scoreVars>>

\* return counts
CountsReturn ==
    /\ pc = "counts"
    /\ seq_k > Len(sequence_list)
    /\ pc' = "normalize"
    /\ UNCHANGED <<wordlist, countVars, row_normalized>>
    /\ UNCHANGED <<mainVars, repairVars, scoreVars>>

(***************************************************************************)
(* row_normalized_transition_matrix(counts, smoothing=1)                   *)
(***************************************************************************)
\* len(table): the size of the first axis.
TableLen(t) == Cardinality(DOMAIN t)

RECURSIVE SumRow(_, _)
SumRow(row, k) == IF k < 0 THEN 0 ELSE row[k] + SumRow(row, k - 1)

\* counts.sum(1)[i]
RowSum(c, i) == SumRow(c[i], TableLen(c) - 1)

\* ((counts.T + smoothing) / counts.sum(1)).T : cell [i][j] is
\* (counts[i][j] + smoothing) / counts.sum(1)[i]; a division by 0.0 gives inf.
row_normalized_transition_matrix(c, smoothing) ==
    [i \in DOMAIN c |-> [j \in DOMAIN c[i] |-> <<c[i][j] + smoothing, RowSum(c, i)>>]]

\* row_normalized = row_normalized_transition_matrix(count_mat)
Normalize ==
    /\ pc = "normalize"
    /\ row_normalized' = row_normalized_transition_matrix(counts, Smoothing)
    /\ pc' = "main"
    /\ UNCHANGED <<wordlist, countVars>>
    /\ UNCHANGED <<mainVars, repairVars, scoreVars>>

\* Values of the variables a specification does not use.
NoTable == [i \in Symbols |-> [j \in Symbols |-> <<1, 1>>]]
NoResult == [kind |-> "none", value |-> <<>>]

IdleMain ==
    /\ repairing = FALSE
    /\ company_names = <<>>
    /\ repaired = <<>>
    /\ num_repaired = 0
    /\ iter_count = 0

IdleRepair ==
    /\ word = <<>>
    /\ transmat = NoTable
    /\ allow_deletions = FALSE
    /\ result = NoResult

IdleScore ==
    /\ sequence = <<>>
    /\ log_transmat = [ndim |-> 2, cell |-> NoTable]
    /\ score = LogZero

IdleCounts ==
    /\ n_symbols = NSymbols
    /\ sequence_list = <<>>
    /\ counts = ZeroCounts(NSymbols)
    /\ seq_k = 1
    /\ i_k = 0
    /\ row_normalized = NoTable

(***************************************************************************)
(* SpecCounts: transition_counts on every collection of at most MaxSeqs    *)
(* index sequences of at most MaxSeqLen symbols, then the normalization of *)
(* the table it returned.                                                  *)
(***************************************************************************)
InitCounts ==
    /\ pc = "counts"
    /\ wordlist = <<>>
    /\ n_symbols = CountSymbols
    /\ sequence_list \in ListsOf(SeqsOf(0 .. (CountSymbols - 1), 0, MaxSeqLen), MaxSeqs)
    /\ counts = ZeroCounts(n_symbols)
    /\ seq_k = 1
    /\ i_k = 0
    /\ row_normalized = NoTable
    /\ IdleMain /\ IdleRepair /\ IdleScore

NextCounts == CountTransition \/ NextSequence \/ CountsReturn \/ Normalize

SpecCounts == InitCounts /\ [][NextCounts]_vars

\* transition_counts has returned.
Counted == pc \in {"normalize", "main"}

\* row_normalized_transition_matrix has returned.
Normalized == pc = "main"

\* The positions <<k, i>> of the adjacent pairs (a, b) in the collection.
PairPositions(sl, a, b) ==
    {p \in UNION {{<<k, i>> : i \in 1 .. Len(sl[k])} : k \in DOMAIN sl} :
        /\ p[2] < Len(sl[p[1]])
        /\ sl[p[1]][p[2]] = a
        /\ sl[p[1]][p[2] + 1] = b}

C2_RowStochastic ==
    Normalized =>
        \A i \in DOMAIN counts :
            RowSum(counts, i) > 0 =>
                /\ \A j \in DOMAIN counts :
                       row_normalized[i][j][1] > 0 /\ row_normalized[i][j][2] > 0
                /\ SumRow([j \in DOMAIN counts |-> row_normalized[i][j][1]], n_symbols - 1)
                       = row_normalized[i][0][2]

\* C7, as claimed: a row whose counts sum to 0 is normalized to the uniform
\* row (the function raises nothing), and no cell of the table is inf or NaN
\* (a zero denominator).
C7_DegenerateRow ==
    Normalized =>
        /\ \A i \in DOMAIN counts, j \in DOMAIN counts : row_normalized[i][j][2] # 0
        /\ \A i \in DOMAIN counts :
               RowSum(counts, i) = 0 =>
                   \A j \in DOMAIN counts : Same(row_normalized[i][j], <<1, n_symbols>>)

(***************************************************************************)
(* numpy indexing                                                          *)
(***************************************************************************)
\* An index numpy accepts on an axis of size n; any other raises IndexError.
IndexOk(i, n) == -n <= i /\ i < n

\* The position an accepted index reads: a negative index counts from the end.
NpIndex(i, n) == IF i < 0 THEN i + n ELSE i

\* table[i, j]
At2(t, i, j) == t[NpIndex(i, TableLen(t))][NpIndex(j, TableLen(t))]

\* table[i, j, k]
At3(t, i, j, k) ==
    t[NpIndex(i, TableLen(t))][NpIndex(j, TableLen(t))][NpIndex(k, TableLen(t))]

\* np.log(transmat), a 2-dimensional table.
NpLog(tm) ==
    [ndim |-> 2,
     cell |-> [i \in DOMAIN tm |-> [j \in DOMAIN tm[i] |-> NpLogCell(tm[i][j])]]]

(***************************************************************************)
(* score_sequence(sequence, log_transmat)                                  *)
(***************************************************************************)
\* for i in range(len(sequence) - 1): score += log_transmat[sequence[i], sequence[i+1]]
RECURSIVE ScoreLoop2(_, _, _, _, _)
ScoreLoop2(seq, cell, i, stop, acc) ==
    IF i >= stop THEN acc
    ELSE ScoreLoop2(seq, cell, i + 1, stop,
                    LogAdd(acc, At2(cell, seq[i + 1], seq[i + 2])))

\* for i in range(len(sequence) - 2): score += log_transmat[sequence[i], sequence[i+1], sequence[i+2]]
RECURSIVE ScoreLoop3(_, _, _, _, _)
ScoreLoop3(seq, cell, i, stop, acc) ==
    IF i >= stop THEN acc
    ELSE ScoreLoop3(seq, cell, i + 1, stop,
                    LogAdd(acc, At3(cell, seq[i + 1], seq[i + 2], seq[i + 3])))

\* A slip in the dispatch: the 2-dimensional table scored over the window of
\* the 3-dimensional one.
score_sequence_short(seq, lt) ==
    IF lt.ndim = 2 THEN ScoreLoop2(seq, lt.cell, 0, Len(seq) - 2, LogZero)
    ELSE IF lt.ndim = 3 THEN ScoreLoop3(seq, lt.cell, 0, Len(seq) - 2, LogZero)
    ELSE LogZero

score_sequence(seq, lt) ==
    IF lt.ndim = 2 THEN ScoreLoop2(seq, lt.cell, 0, Len(seq) - 1, LogZero)
    ELSE IF lt.ndim = 3 THEN ScoreLoop3(seq, lt.cell, 0, Len(seq) - 2, LogZero)
    ELSE LogZero

\* score = score_sequence(sequence, log_transmat)
ScoreSequence ==
    /\ pc = "score"
    /\ score' = score_sequence(sequence, log_transmat)
    /\ pc' = "scored"
    /\ UNCHANGED <<wordlist, countVars, row_normalized, sequence, log_transmat>>
    /\ UNCHANGED <<mainVars, repairVars>>

(***************************************************************************)
(* SpecScore: score_sequence on every sequence of at most MaxScoreLen      *)
(* symbols and every table over ScoreSymbols symbols with cells in         *)
(* LogCells; a 3-dimensional table is a stack of one 2-dimensional table.  *)
(***************************************************************************)
ScoreAlphabet == 0 .. (ScoreSymbols - 1)

\* ln(1/2), ln(3)
LogCells == {<<1, 2>>, <<3, 1>>}

InitScore ==
    /\ pc = "score"
    /\ wordlist = <<>>
    /\ IdleCounts /\ IdleMain /\ IdleRepair
    /\ sequence \in SeqsOf(ScoreAlphabet, 0, MaxScoreLen)
    /\ \E t \in [ScoreAlphabet -> [ScoreAlphabet -> LogCells]] :
           \/ log_transmat = [ndim |-> 2, cell |-> t]
           \/ log_transmat = [ndim |-> 3, cell |-> [i \in ScoreAlphabet |-> t]]
    /\ score = LogZero

NextScore == ScoreSequence

SpecScore == InitScore /\ [][NextScore]_vars

\* The sum of cell[seq[k]][seq[k+1]] over the adjacent pairs from position k on.
RECURSIVE SumPairsFrom(_, _, _)
SumPairsFrom(seq, cell, k) ==
    IF k >= Len(seq) THEN LogZero
    ELSE LogAdd(cell[seq[k]][seq[k + 1]], SumPairsFrom(seq, cell, k + 1))

\* C9: for a 2-dimensional log table, score_sequence returns the sum of
\* log_table[seq[i]][seq[i+1]] over all adjacent pairs, and exactly 0.0 for a
\* sequence of length 0 or 1.
C9_ScoreAdditivity ==
    (pc = "scored" /\ log_transmat.ndim = 2) =>
        /\ Same(score, SumPairsFrom(sequence, log_transmat.cell, 1))
        /\ Len(sequence) < 2 => score = LogZero

\* C9 witness: a sequence with two adjacent pairs was scored under a
\* 2-dimensional table, and the score is not 0.0.
C9_Witness ==
    /\ pc = "scored"
    /\ log_transmat.ndim = 2
    /\ Len(sequence) = 3
    /\ ~Same(score, LogZero)

(***************************************************************************)
(* word_to_intlist, intlist_to_word                                        *)
(***************************************************************************)
\* [ord(letter) - ord('a') for letter in word]
word_to_intlist(w) == [k \in 1 .. Len(w) |-> w[k] - OrdA]

\* [chr(num + ord('a')) for num in intlist]
intlist_to_word(l) == [k \in 1 .. Len(l) |-> l[k] + OrdA]

(***************************************************************************)
(* repair_word(word, transmat, allow_deletions=False)                      *)
(***************************************************************************)
Raise(e) == [kind |-> e, value |-> <<>>]
Return(v) == [kind |-> "return", value |-> v]

\* [transmat[intlist[i], intlist[i+1]] for i in range(len(word)-1)]
TransitionCosts(intlist, tm) ==
    [i \in 1 .. (Len(intlist) - 1) |-> At2(tm, intlist[i], intlist[i + 1])]

\* The comprehension above indexes transmat with every element of a word of
\* two or more letters.
CostsIndexOk(intlist, tm) ==
    Len(intlist) >= 2 => \A k \in DOMAIN intlist : IndexOk(intlist[k], TableLen(tm))

\* np.argmin of a non-empty list: the 0-based position of the first minimum.
ArgMin(xs) ==
    (CHOOSE i \in DOMAIN xs :
        /\ \A j \in DOMAIN xs : Leq(xs[i], xs[j])
        /\ \A j \in 1 .. (i - 1) : Less(xs[i], xs[j])) - 1

\* A slip: the position of the last maximum.
ArgMaxLast(xs) ==
    (CHOOSE i \in DOMAIN xs :
        /\ \A j \in DOMAIN xs : Leq(xs[j], xs[i])
        /\ \A j \in (i + 1) .. Len(xs) : Less(xs[j], xs[i])) - 1

\* np.argmax of a non-empty list: the 0-based position of the first maximum.
ArgMax(xs) ==
    (CHOOSE i \in DOMAIN xs :
        /\ \A j \in DOMAIN xs : Leq(xs[j], xs[i])
        /\ \A j \in 1 .. (i - 1) : Less(xs[j], xs[i])) - 1

\* [intlist[:worst+1] + [i] + intlist[1+worst:] for i in range(len(transmat))]
InsertionCandidates(intlist, worst, n) ==
    [c \in 1 .. n |->
        SubSeq(intlist, 1, worst + 1) \o <<c - 1>>
            \o SubSeq(intlist, worst + 2, Len(intlist))]

\* A slip: the line "candidates = candidates + [intlist]" left out.
CandidatesWithoutNoop(intlist, worst, n) == InsertionCandidates(intlist, worst, n)

\* candidates = candidates + [intlist]
Candidates(intlist, worst, n) == InsertionCandidates(intlist, worst, n) \o <<intlist>>

\* list.remove(v): the list without the first element equal to v.
ListRemove(l, v) ==
    LET k == CHOOSE k \in DOMAIN l : l[k] = v /\ \A j \in 1 .. (k - 1) : l[j] # v
    IN  SubSeq(l, 1, k - 1) \o SubSeq(l, k + 1, Len(l))

\* [intlist.remove(i) for i in range(len(intlist))]: range() is evaluated on
\* the list's length before the first removal; remove(i) takes the VALUE i
\* out of intlist in place, returns None, and raises ValueError when i is
\* not an element.
RECURSIVE RemoveLoop(_, _, _)
RemoveLoop(l, i, stop) ==
    IF i >= stop THEN [kind |-> "none_entries", list |-> l]
    ELSE IF i \notin Range(l) THEN [kind |-> "ValueError", list |-> l]
    ELSE RemoveLoop(ListRemove(l, i), i + 1, stop)

\* [score_sequence(c, np.log(transmat)) for c in candidates]
CandidateScores(cands, tm) ==
    [k \in DOMAIN cands |-> score_sequence(cands[k], NpLog(tm))]

repair_word(w, tm, deletions) ==
    LET intlist == word_to_intlist(w) IN
    IF ~CostsIndexOk(intlist, tm) THEN Raise("IndexError")
    \* np.argmin of an empty list
    ELSE IF Len(w) - 1 <= 0 THEN Raise("ValueError")
    ELSE
        LET worst_transition == ArgMin(TransitionCosts(intlist, tm))
            candidates == Candidates(intlist, worst_transition, TableLen(tm))
        IN  IF deletions
            THEN
                \* When no remove() raises, candidates ends with len(intlist) >= 2
                \* entries None, and score_sequence(None, ...) evaluates len(None).
                IF RemoveLoop(intlist, 0, Len(intlist)).kind = "ValueError"
                THEN Raise("ValueError")
                ELSE Raise("TypeError")
            ELSE
                Return(intlist_to_word(
                    candidates[ArgMax(CandidateScores(candidates, tm)) + 1]))

\* result = repair_word(word, transmat, allow_deletions)
RepairWord ==
    /\ pc = "repair"
    /\ result' = repair_word(word, transmat, allow_deletions)
    /\ pc' = "repaired"
    /\ UNCHANGED <<wordlist, countVars, row_normalized, word, transmat, allow_deletions>>
    /\ UNCHANGED <<mainVars, scoreVars>>

(***************************************************************************)
(* SpecRepair: repair_word with deletions off on every word of at most     *)
(* MaxWordLen letters of the alphabet and every table of ProbTables.       *)
(* SpecRepairAny: the same with deletions on or off and with words that    *)
(* may hold the character just before 'a' and the one just after the       *)
(* alphabet's last letter.                                                 *)
(***************************************************************************)
Letters == OrdA .. (OrdA + NSymbols - 1)
Chars == (OrdA - 1) .. (OrdA + NSymbols)

\* 1 + 2 + ... + n
ProbDen == (NSymbols * (NSymbols + 1)) \div 2

\* The row 1/ProbDen, 2/ProbDen, ..., n/ProbDen rotated by k places.
Rotation(k) == [j \in Symbols |-> <<((j + k) % NSymbols) + 1, ProbDen>>]

\* The probability tables each of whose rows is such a rotation.
ProbTables == {[i \in Symbols |-> Rotation(t[i])] : t \in [Symbols -> Symbols]}

\* A probability table: every cell positive and finite, every row sums to 1
\* (its numerators sum to the row's common denominator).
ValidTable(tm) ==
    \A i \in DOMAIN tm :
        /\ \A j \in DOMAIN tm[i] :
               tm[i][j][1] > 0 /\ tm[i][j][2] > 0 /\ tm[i][j][2] = tm[i][0][2]
        /\ SumRow([j \in DOMAIN tm[i] |-> tm[i][j][1]], TableLen(tm) - 1) = tm[i][0][2]

InitRepairOver(chars, flags) ==
    /\ pc = "repair"
    /\ wordlist = <<>>
    /\ IdleCounts /\ IdleMain /\ IdleScore
    /\ word \in SeqsOf(chars, 0, MaxWordLen)
    /\ transmat \in ProbTables
    /\ allow_deletions \in flags
    /\ result = NoResult

InitRepair == InitRepairOver(Letters, {FALSE})
InitRepairAny == InitRepairOver(Chars, BOOLEAN)

NextRepair == RepairWord

SpecRepair == InitRepair /\ [][NextRepair]_vars
SpecRepairAny == InitRepairAny /\ [][NextRepair]_vars

(***************************************************************************)
(* Claims about repair_word, checked on the state after the call.          *)
(***************************************************************************)
\* The order-1 log-likelihood of a word under transmat.
WordScore(w) == score_sequence(word_to_intlist(w), NpLog(transmat))

OverAlphabet(w) == \A k \in DOMAIN w : w[k] \in Letters

\* The word with letter c put between its 0-based positions e and e+1.
Spliced(w, e, c) == SubSeq(w, 1, e + 1) \o <<c>> \o SubSeq(w, e + 2, Len(w))

\* The word without the letter at 1-based position p.
Without(w, p) == SubSeq(w, 1, p - 1) \o SubSeq(w, p + 1, Len(w))

\* The worst edge of a word: the first of its least probable transitions.
WorstEdge(w) ==
    CHOOSE e \in 0 .. (Len(w) - 2) :
        /\ \A f \in 0 .. (Len(w) - 2) :
               Leq(transmat[w[e + 1] - OrdA][w[e + 2] - OrdA],
                   transmat[w[f + 1] - OrdA][w[f + 2] - OrdA])
        /\ \A f \in 0 .. (e - 1) :
               Less(transmat[w[e + 1] - OrdA][w[e + 2] - OrdA],
                    transmat[w[f + 1] - OrdA][w[f + 2] - OrdA])

\* The enumeration the claims give for a word with worst edge e: the n
\* insertions at that edge in alphabet order, then the word itself.
Enumeration(w, e) ==
    [k \in 1 .. (NSymbols + 1) |->
        IF k <= NSymbols THEN Spliced(w, e, OrdA + k - 1) ELSE w]

\* The scores of the enumeration's candidates from position k on.
RECURSIVE EnumerationScores(_, _, _)
EnumerationScores(w, e, k) ==
    IF k > NSymbols + 1 THEN <<>>
    ELSE <<WordScore(Enumeration(w, e)[k])>> \o EnumerationScores(w, e, k + 1)

\* The positions of the best scores in a list of scores.
BestPositions(sc) == {k \in DOMAIN sc : \A j \in DOMAIN sc : Leq(sc[j], sc[k])}

RepairedPlain ==
    /\ pc = "repaired"
    /\ Len(word) >= 2
    /\ OverAlphabet(word)
    /\ ~allow_deletions

\* C1: for a word of two or more letters of the alphabet and a probability
\* table, with deletions off, repair_word returns a word whose score is at
\* least the score of the input word.
C1_RepairImprovesOrHolds ==
    (RepairedPlain /\ ValidTable(transmat)) =>
        /\ result.kind = "return"
        /\ Leq(WordScore(word), WordScore(result.value))

\* C1 witness: a repair that returned a different word with a strictly
\* higher score.
C1_Witness ==
    /\ RepairedPlain /\ ValidTable(transmat)
    /\ result.kind = "return"
    /\ result.value # word
    /\ Less(WordScore(word), WordScore(result.value))

\* C10: repair_word returns the first best candidate of the enumeration; so
\* when an insertion scores the same as the unchanged word and nothing scores
\* higher, the returned word is one letter longer.
C10_TieBreak ==
    RepairedPlain =>
        LET e == WorstEdge(word)
            best == BestPositions(EnumerationScores(word, e, 1))
            first == CHOOSE k \in best : \A j \in best : k <= j
        IN  /\ result = Return(Enumeration(word, e)[first])
            /\ (NSymbols + 1 \in best /\ best # {NSymbols + 1})
                   => Len(result.value) = Len(word) + 1

\* C10 witness: two insertions and the unchanged word all score best, and the
\* insertion of the lower letter was returned.
C10_Witness ==
    /\ RepairedPlain
    /\ LET e == WorstEdge(word)
           best == BestPositions(EnumerationScores(word, e, 1))
       IN  /\ NSymbols + 1 \in best
           /\ Cardinality(best) >= 3
           /\ \E k \in best :
                  /\ \A j \in best : k <= j
                  /\ result = Return(Spliced(word, e, OrdA + k - 1))

\* C4, as claimed: a word of length 0 or 1 is returned unchanged, without an
\* error.
C4_ShortInput ==
    (pc = "repaired" /\ Len(word) < 2) => result = Return(word)

\* The candidates of the claim when deletions are allowed: the enumeration
\* above and, for every position, the word without that one letter.
WithDeletions(w) ==
    {Spliced(w, WorstEdge(w), c) : c \in Letters} \cup {w}
        \cup {Without(w, p) : p \in 1 .. Len(w)}

\* C5, as claimed: with allow_deletions=True the call returns a best
\* candidate among the insertions, the unchanged word and the single-letter
\* deletions of the original word.
C5_DeletionCandidates ==
    (pc = "repaired" /\ allow_deletions /\ Len(word) >= 2 /\ OverAlphabet(word)) =>
        /\ result.kind = "return"
        /\ result.value \in WithDeletions(word)
        /\ \A c \in WithDeletions(word) : Leq(WordScore(c), WordScore(result.value))

\* C6, as claimed: a word with a character outside the alphabet never gets
\* past the encoding: word_to_intlist returns no index outside 0..n-1, the
\* call fails with UnsupportedSymbolError.
C6_EncodingRejectsForeign ==
    (pc = "repaired" /\ ~OverAlphabet(word)) =>
        /\ \A k \in DOMAIN word : word_to_intlist(word)[k] \in Symbols
        /\ result.kind = "UnsupportedSymbolError"

(***************************************************************************)
(* learn_dictionary() and the __main__ block                               *)
(***************************************************************************)
\* str.isalpha(w) and str.islower(w), on the characters of Chars: the one
\* before 'a' and the one after the alphabet's last letter are not letters.
IsLowerAlpha(w) == Len(w) > 0 /\ \A k \in DOMAIN w : w[k] \in Letters

\* [x for x in l if keep(x)]
RECURSIVE FilterSeq(_, _, _)
FilterSeq(l, keep, k) ==
    IF k > Len(l) THEN <<>>
    ELSE (IF l[k] \in keep THEN <<l[k]>> ELSE <<>>) \o FilterSeq(l, keep, k + 1)

\* wordlist = [w for w in wordlist if len(w) >= 3 and str.isalpha(w) and str.islower(w)]
\* count_mat = transition_counts(26, [word_to_intlist(word) for word in wordlist])
LearnDictionary ==
    /\ pc = "learn"
    /\ wordlist' = FilterSeq(wordlist,
                       {w \in Range(wordlist) : Len(w) >= MinDictWordLen /\ IsLowerAlpha(w)}, 1)
    /\ sequence_list' = [k \in DOMAIN wordlist' |-> word_to_intlist(wordlist'[k])]
    /\ n_symbols' = NSymbols
    /\ counts' = ZeroCounts(n_symbols')
    /\ seq_k' = 1
    /\ i_k' = 0
    /\ pc' = "counts"
    /\ UNCHANGED <<row_normalized, mainVars, repairVars, scoreVars>>

\* [repair_word(name, row_normalized) for name in names]
RepairAll(names, tm) == [k \in DOMAIN names |-> repair_word(names[k], tm, FALSE)]

\* [name for i, name in enumerate(all_repaired) if name != names[i]]
RECURSIVE ChangedNames(_, _, _)
ChangedNames(all_repaired, names, k) ==
    IF k > Len(names) THEN <<>>
    ELSE (IF all_repaired[k].value # names[k] THEN <<all_repaired[k].value>> ELSE <<>>)
             \o ChangedNames(all_repaired, names, k + 1)

\* An exception of repair_word ends the program.
Raised(all_repaired) == \E k \in DOMAIN all_repaired : all_repaired[k].kind # "return"

\* company_names = [name for name in company_names if name not in wordlist ...]
\* and, with the switch off, the end of the program.
MainWithoutRepair ==
    /\ pc = "main"
    /\ ~repairing
    /\ company_names' = FilterSeq(company_names, Range(company_names) \ Range(wordlist), 1)
    /\ pc' = "done"
    /\ UNCHANGED <<wordlist, countVars, row_normalized, repairing, repaired,
                   num_repaired, iter_count, repairVars, scoreVars>>

\* The same filter, then the first round of repairs and iter_count = 2.
MainFirstRound ==
    /\ pc = "main"
    /\ repairing
    /\ company_names' = FilterSeq(company_names, Range(company_names) \ Range(wordlist), 1)
    /\ LET all_repaired == RepairAll(company_names', row_normalized)
       IN  IF Raised(all_repaired)
           THEN pc' = "raised" /\ UNCHANGED <<repaired, num_repaired, iter_count>>
           ELSE /\ repaired' = ChangedNames(all_repaired, company_names', 1)
                /\ num_repaired' = Len(repaired')
                /\ iter_count' = FirstLoopRound
                /\ pc' = "loop"
    /\ UNCHANGED <<wordlist, countVars, row_normalized, repairing, repairVars, scoreVars>>

\* while num_repaired > 0 and iter_count < 10: one more round.
LoopRound ==
    /\ pc = "loop"
    /\ num_repaired > 0 /\ iter_count < MaxRounds
    /\ LET all_repaired == RepairAll(repaired, row_normalized)
       IN  IF Raised(all_repaired)
           THEN pc' = "raised" /\ UNCHANGED <<repaired, num_repaired, iter_count>>
           ELSE /\ repaired' = ChangedNames(all_repaired, repaired, 1)
                /\ num_repaired' = Len(repaired')
                /\ iter_count' = iter_count + 1
                /\ pc' = "loop"
    /\ UNCHANGED <<wordlist, countVars, row_normalized, repairing, company_names,
                   repairVars, scoreVars>>

\* The loop's condition is false: the program ends.
LoopExit ==
    /\ pc = "loop"
    /\ ~(num_repaired > 0 /\ iter_count < MaxRounds)
    /\ pc' = "done"
    /\ UNCHANGED <<wordlist, countVars, row_normalized, mainVars, repairVars, scoreVars>>

(***************************************************************************)
(* Spec: the program, from the dictionary read to the end of the repair    *)
(* loop.  The dictionary holds at most MaxDictWords strings of 2 to        *)
(* MaxDictWordLen characters; the sampled names are at most MaxNames       *)
(* distinct words of 2 to MaxNameLen letters.  The source sets the switch  *)
(* `repairing` to False by hand; both settings are modelled.               *)
(***************************************************************************)
DictChars == (OrdA - 1) .. (OrdA + NSymbols - 1)

Distinct(l) == \A j \in DOMAIN l, k \in DOMAIN l : j # k => l[j] # l[k]

Init ==
    /\ pc = "learn"
    /\ wordlist \in ListsOf(SeqsOf(DictChars, 2, MaxDictWordLen), MaxDictWords)
    /\ IdleCounts /\ IdleRepair /\ IdleScore
    /\ repairing \in BOOLEAN
    /\ company_names \in {l \in ListsOf(SeqsOf(Letters, 2, MaxNameLen), MaxNames) : Distinct(l)}
    /\ repaired = <<>>
    /\ num_repaired = 0
    /\ iter_count = 0

Next ==
    \/ LearnDictionary
    \/ CountTransition
    \/ NextSequence
    \/ CountsReturn
    \/ Normalize
    \/ MainWithoutRepair
    \/ MainFirstRound
    \/ LoopRound
    \/ LoopExit

Spec == Init /\ [][Next]_vars

\* C3, as claimed: when the convergence loop has stopped, every word has been
\* dropped from the working set as unchanged by its last repair.
C3_FixedPointWithinBound ==
    (pc = "done" /\ repairing) => (num_repaired = 0 /\ repaired = <<>>)

====
